---- MODULE Spec2Model ----
(***************************************************************************)
(* A model of the RAG microservice: the content loader, the chunker, the   *)
(* embedder, the vector index, the answer synthesizer and the orchestrator *)
(* (app/services/document_service.py) that sequences them.                 *)
(*                                                                         *)
(* A text is a sequence of one-character strings.  The embedding provider, *)
(* the HTTP fetch, the PDF reader and the vector store are the environment *)
(* of the service: each handler action draws their behaviour for the call  *)
(* (a result or a failure) from small sets.                                *)
(***************************************************************************)
EXTENDS Integers, Sequences, FiniteSets, TLC

VARIABLES
    collection,   \* the Chroma collection: a sequence of entries, in insertion order
    uuids,        \* the last chunk id uuid4() handed out (ids are drawn in order)
    ingests,      \* how many ingestion requests have been answered
    req,          \* the call being answered ([op |-> "none"] when idle)
    resp,         \* what the call returned or raised ([kind |-> "none"] when idle)
    calls,        \* the collaborator calls the call made, in order
    chunks,       \* the chunks the chunker produced during the call
    records,      \* the records embed_chunks returned (or store_embeddings was given)
    history,      \* the store_embeddings calls a direct caller of the index has made
    text_splitter \* the chunker the service holds: its chunk_size and chunk_overlap

vars == <<collection, uuids, ingests, req, resp, calls, chunks, records, history,
          text_splitter>>

----------------------------------------------------------------------------
(* Bounds of the model.                                                    *)

\* Settings.chunk_size and Settings.chunk_overlap of the modelled deployment
\* (scaled down from the defaults 500 and 100 of app/core/config.py).
chunk_size == 2
chunk_overlap == 1
\* Length of the long document: enough text for more than one embedding batch.
LongLen == 102
\* Ingestion requests answered in one behaviour.
MaxIngests == 1
\* store_embeddings calls a direct caller of the index makes
MaxStores == 2
\* Longest text a direct caller of the chunker gives it
MaxTextLen == 4
\* Chunk sizes that hold one page of a small PDF, and two
PageChunkSize == 20
TwoPageChunkSize == 40

----------------------------------------------------------------------------
(* Texts.                                                                  *)

Str1(c) == <<c>>

Whitespace == {" ", "\n", "\t"}

StartsWith(text, prefix) ==
    /\ Len(text) >= Len(prefix)
    /\ SubSeq(text, 1, Len(prefix)) = prefix

\* Position of the first occurrence of sub in text at or after from; 0 if none.
Find(text, sub, from) ==
    LET hits == {i \in from..(Len(text) - Len(sub) + 1) :
                    SubSeq(text, i, i + Len(sub) - 1) = sub}
    IN  IF hits = {} THEN 0 ELSE CHOOSE i \in hits : \A j \in hits : i <= j

Contains(text, sub) == Find(text, sub, 1) # 0

RECURSIVE LStrip(_)
LStrip(text) ==
    IF text # <<>> /\ Head(text) \in Whitespace THEN LStrip(Tail(text)) ELSE text

RECURSIVE RStrip(_)
RStrip(text) ==
    IF text # <<>> /\ text[Len(text)] \in Whitespace
    THEN RStrip(SubSeq(text, 1, Len(text) - 1))
    ELSE text

\* str.strip()
Strip(text) == RStrip(LStrip(text))

RECURSIVE Concat(_)
Concat(texts) ==
    IF texts = <<>> THEN <<>> ELSE Head(texts) \o Concat(Tail(texts))

\* sep.join(texts)
RECURSIVE Join(_, _)
Join(sep, texts) ==
    IF texts = <<>> THEN <<>>
    ELSE IF Len(texts) = 1 THEN texts[1]
    ELSE texts[1] \o sep \o Join(sep, Tail(texts))

\* str.split(sep) for a non-empty sep: the pieces between its occurrences.
RECURSIVE SplitOn(_, _)
SplitOn(text, sep) ==
    LET i == Find(text, sep, 1)
    IN  IF i = 0 THEN <<text>>
        ELSE <<SubSeq(text, 1, i - 1)>>
             \o SplitOn(SubSeq(text, i + Len(sep), Len(text)), sep)

RECURSIVE NonEmpty(_)
NonEmpty(texts) ==
    IF texts = <<>> THEN <<>>
    ELSE IF Head(texts) = <<>> THEN NonEmpty(Tail(texts))
    ELSE <<Head(texts)>> \o NonEmpty(Tail(texts))

----------------------------------------------------------------------------
(* The chunker: SmartTextSplitter over RecursiveCharacterTextSplitter with *)
(* separators ["\n--- Page", "\n\n", "\n", " ", ""], the separator kept at *)
(* the head of the piece that follows it, every merged chunk stripped.     *)

PageSep == <<"\n", "-", "-", "-", " ", "P", "a", "g", "e">>

\* The separator list as it would be without its last entry, the empty
\* separator that cuts between any two characters.
separators_without_fallback == <<PageSep, <<"\n", "\n">>, <<"\n">>, <<" ">>>>

separators == <<PageSep, <<"\n", "\n">>, <<"\n">>, <<" ">>, <<>>>>

\* The pieces of text cut at separator, each later piece led by the separator;
\* the empty separator cuts between every two characters.  Empty pieces go.
split_text_with_regex(text, separator) ==
    IF separator = <<>>
    THEN [i \in 1..Len(text) |-> Str1(text[i])]
    ELSE LET parts == SplitOn(text, separator)
         IN  NonEmpty(<<parts[1]>>
                      \o [i \in 1..(Len(parts) - 1) |-> separator \o parts[i + 1]])

\* The joined pieces, stripped; nothing when only whitespace is left.
join_docs(docs) ==
    LET text == Strip(Concat(docs))
    IN  IF text = <<>> THEN <<>> ELSE <<text>>

\* The inner while loop of _merge_splits: pieces leave the head of the
\* current window until at most overlap characters stay and the next piece fits.
RECURSIVE drop_head(_, _, _, _, _)
drop_head(current_doc, total, len, size, overlap) ==
    IF total > overlap \/ (total + len > size /\ total > 0)
    THEN drop_head(Tail(current_doc), total - Len(Head(current_doc)),
                   len, size, overlap)
    ELSE [current_doc |-> current_doc, total |-> total]

\* One turn of the for loop of _merge_splits on piece d.  st holds the chunks
\* made so far (docs) and the window being filled (current_doc, total).
merge_step(st, d, size, overlap) ==
    LET full == st.total + Len(d) > size /\ st.current_doc # <<>>
        kept == IF full
                THEN drop_head(st.current_doc, st.total, Len(d), size, overlap)
                ELSE [current_doc |-> st.current_doc, total |-> st.total]
    IN  [docs |-> IF full THEN st.docs \o join_docs(st.current_doc) ELSE st.docs,
         current_doc |-> Append(kept.current_doc, d),
         total |-> kept.total + Len(d)]

\* The for loop over splits[lo..hi], left to right (halved, to keep the
\* evaluation shallow on long inputs).
RECURSIVE merge_loop(_, _, _, _, _, _)
merge_loop(st, splits, lo, hi, size, overlap) ==
    IF lo > hi THEN st
    ELSE IF lo = hi THEN merge_step(st, splits[lo], size, overlap)
    ELSE LET mid == (lo + hi) \div 2
             left == merge_loop(st, splits, lo, mid, size, overlap)
         IN  IF left.total >= 0   \* always: the left half is worked out first
             THEN merge_loop(left, splits, mid + 1, hi, size, overlap)
             ELSE left

\* _merge_splits: small pieces packed into chunks of at most size characters,
\* each chunk starting with the tail (at most overlap characters) of the last.
merge_splits(splits, size, overlap) ==
    LET st == merge_loop([docs |-> <<>>, current_doc |-> <<>>, total |-> 0],
                         splits, 1, Len(splits), size, overlap)
    IN  st.docs \o join_docs(st.current_doc)

\* The separator _split_text picks: the first one that occurs in the text (the
\* empty one always does), with the separators after it for the pieces that
\* are still too long.
pick_separator(text, seps) ==
    LET found == {i \in 1..Len(seps) : seps[i] = <<>> \/ Contains(text, seps[i])}
        k == IF found = {} THEN Len(seps)
             ELSE CHOOSE i \in found : \A j \in found : i <= j
    IN  [separator |-> seps[k],
         new_separators |-> IF found = {} \/ seps[k] = <<>>
                            THEN <<>>
                            ELSE SubSeq(seps, k + 1, Len(seps))]

\* What is left to do with the pieces waiting in good_splits: merge them.
flush(good_splits, size, overlap) ==
    IF good_splits = <<>> THEN <<>> ELSE merge_splits(good_splits, size, overlap)

RECURSIVE split_text(_, _, _, _)
RECURSIVE split_loop(_, _, _, _, _, _, _)
RECURSIVE split_pieces(_, _, _, _)

\* One turn of the for loop of _split_text on piece s: a piece shorter than
\* size waits in good_splits to be merged; a longer one is split again with the
\* remaining separators, or kept as it is when none remains.
split_step(st, s, new_separators, size, overlap) ==
    IF Len(s) < size
    THEN [good_splits |-> Append(st.good_splits, s), final_chunks |-> st.final_chunks]
    ELSE [good_splits |-> <<>>,
          final_chunks |-> st.final_chunks
                           \o flush(st.good_splits, size, overlap)
                           \o (IF new_separators = <<>>
                               THEN <<s>>
                               ELSE split_text(s, new_separators, size, overlap))]

split_loop(st, splits, lo, hi, new_separators, size, overlap) ==
    IF lo > hi THEN st
    ELSE IF lo = hi THEN split_step(st, splits[lo], new_separators, size, overlap)
    ELSE LET mid == (lo + hi) \div 2
             left == split_loop(st, splits, lo, mid, new_separators, size, overlap)
         IN  IF Len(left.good_splits) >= 0   \* always: the left half is worked out first
             THEN split_loop(left, splits, mid + 1, hi, new_separators, size, overlap)
             ELSE left

\* The for loop of _split_text over the pieces and the merge of the pieces
\* still waiting after it.
split_pieces(splits, new_separators, size, overlap) ==
    LET st == split_loop([good_splits |-> <<>>, final_chunks |-> <<>>],
                         splits, 1, Len(splits), new_separators, size, overlap)
    IN  st.final_chunks \o flush(st.good_splits, size, overlap)

\* RecursiveCharacterTextSplitter._split_text
split_text(text, seps, size, overlap) ==
    LET pick == pick_separator(text, seps)
    IN  split_pieces(split_text_with_regex(text, pick.separator),
                     pick.new_separators, size, overlap)

----------------------------------------------------------------------------
(* Page markers of PDF text.                                               *)

Digits == <<"0", "1", "2", "3", "4", "5", "6", "7", "8", "9">>
DigitSet == {Digits[i] : i \in 1..Len(Digits)}
DigitValue(c) == (CHOOSE i \in 1..Len(Digits) : Digits[i] = c) - 1

\* str(n) for n >= 0
RECURSIVE Decimal(_)
Decimal(n) ==
    IF n < 10 THEN Str1(Digits[n + 1])
    ELSE Decimal(n \div 10) \o Str1(Digits[(n % 10) + 1])

\* int(digits)
RECURSIVE IntOf(_)
IntOf(digits) ==
    IF digits = <<>> THEN 0
    ELSE 10 * IntOf(SubSeq(digits, 1, Len(digits) - 1))
         + DigitValue(digits[Len(digits)])

MarkerHead == <<"-", "-", "-", " ", "P", "a", "g", "e", " ">>
MarkerTail == <<" ", "-", "-", "-">>

\* f"\n--- Page {page_num} ---\n"
PageMarker(page_num) ==
    <<"\n">> \o MarkerHead \o Decimal(page_num) \o MarkerTail \o <<"\n">>

\* Last position of the run of digits that starts at k (k - 1 if none does).
DigitRunEnd(text, k) ==
    LET stops == {j \in k..Len(text) : text[j] \notin DigitSet}
    IN  IF stops = {} THEN Len(text)
        ELSE (CHOOSE j \in stops : \A m \in stops : j <= m) - 1

\* Whether r"--- Page (\d+) ---" matches text at position i.
MarkerAt(text, i) ==
    LET k == i + Len(MarkerHead)
        e == DigitRunEnd(text, k)
    IN  /\ i >= 1
        /\ i + Len(MarkerHead) - 1 <= Len(text)
        /\ SubSeq(text, i, k - 1) = MarkerHead
        /\ e >= k
        /\ e + Len(MarkerTail) <= Len(text)
        /\ SubSeq(text, e + 1, e + Len(MarkerTail)) = MarkerTail

\* Position after the last character of the marker matched at i.
MarkerEnd(text, i) == DigitRunEnd(text, i + Len(MarkerHead)) + Len(MarkerTail)

NoPage == 0

\* SmartTextSplitter._extract_page_number: the number in the first marker of
\* the text, NoPage (None) when the text holds no marker.
extract_page_number(text) ==
    LET hits == {i \in 1..Len(text) : MarkerAt(text, i)}
        i == CHOOSE h \in hits : \A g \in hits : h <= g
        k == i + Len(MarkerHead)
    IN  IF hits = {} THEN NoPage
        ELSE IntOf(SubSeq(text, k, DigitRunEnd(text, k)))

\* re.sub(r"\n--- Page \d+ ---\n", "\n", text): every marker that stands on a
\* line of its own, with the line breaks around it, becomes one line break.
RECURSIVE strip_markers(_)
strip_markers(text) ==
    LET hits == {i \in 1..Len(text) :
                    /\ text[i] = "\n"
                    /\ MarkerAt(text, i + 1)
                    /\ MarkerEnd(text, i + 1) + 1 <= Len(text)
                    /\ text[MarkerEnd(text, i + 1) + 1] = "\n"}
        i == CHOOSE h \in hits : \A g \in hits : h <= g
    IN  IF hits = {} THEN text
        ELSE SubSeq(text, 1, i - 1) \o <<"\n">>
             \o strip_markers(SubSeq(text, MarkerEnd(text, i + 1) + 2, Len(text)))

----------------------------------------------------------------------------
(* SmartTextSplitter.split_document                                        *)

\* dict.get(key), None modelled by the caller's default
Get(metadata, key, default) ==
    IF key \in DOMAIN metadata THEN metadata[key] ELSE default

\* The chunk made of the i-th piece (counted from 0) out of n; its chunk_id is
\* the uuid4 drawn for it.
make_chunk(document, piece, i, n, chunk_id) ==
    LET is_pdf == Get(document.metadata, "type", "") = "pdf"
        page_num == IF is_pdf THEN extract_page_number(piece) ELSE NoPage
        base == [chunk_index |-> i,
                 total_chunks |-> n,
                 chunk_size |-> Len(piece),
                 original_length |-> Len(document.page_content)]
                @@ document.metadata
        metadata == IF page_num # NoPage THEN [page |-> page_num] @@ base ELSE base
    IN  [text |-> IF is_pdf THEN Strip(strip_markers(piece)) ELSE piece,
         metadata |-> metadata,
         chunk_id |-> chunk_id]

\* The for loop as it would be if total_chunks counted the chunks made so far.
make_chunks_counting(document, pieces, next_id) ==
    [i \in 1..Len(pieces) |->
        make_chunk(document, pieces[i], i - 1, i, next_id + i)]

\* The for loop of split_document over the pieces; the ids next_id + 1,
\* next_id + 2, ... stand for the fresh uuid4 values of the chunks.
\* The for loop as it would be if a chunk's id were its place in the document
\* instead of a uuid4 drawn for it.
make_chunks_numbered(document, pieces, next_id) ==
    [i \in 1..Len(pieces) |->
        make_chunk(document, pieces[i], i - 1, Len(pieces), i)]

make_chunks(document, pieces, next_id) ==
    [i \in 1..Len(pieces) |->
        make_chunk(document, pieces[i], i - 1, Len(pieces), next_id + i)]

\* SmartTextSplitter.split_document
split_document(document, next_id, size, overlap) ==
    make_chunks(document,
                split_text(document.page_content, separators, size, overlap),
                next_id)

----------------------------------------------------------------------------
(* Results of calls that may raise.  An error is the text of the exception, *)
(* a sequence of its parts: an f-string prefix followed by the cause.       *)

Ok(v) == [ok |-> TRUE, value |-> v]
Raise(error) == [ok |-> FALSE, error |-> error]
\* raise Kind(f"{prefix}{str(e)}")
Wrap(prefix, error) == <<prefix>> \o error

\* One collaborator call, as the call log keeps it: which call, on how many
\* items, and whether it returned.
Call(name, n, ok) == [call |-> name, n |-> n, ok |-> ok]

\* No chunker constructed yet.
NoSplitter == [chunk_size |-> 0, chunk_overlap |-> 0]

\* SmartTextSplitter.__init__: the sizes go to RecursiveCharacterTextSplitter,
\* whose constructor refuses an overlap larger than the chunk size and accepts
\* every other pair of a positive size and a non-negative overlap.
SmartTextSplitter(size, overlap) ==
    IF overlap > size
    THEN Raise(<<"Got a larger chunk overlap (", Decimal(overlap),
                 ") than chunk size (", Decimal(size), "), should be smaller.">>)
    ELSE Ok([chunk_size |-> size, chunk_overlap |-> overlap])

----------------------------------------------------------------------------
(* The content loader: app/utils/document_loader.py.  A world says what the *)
(* outside gives during one call: whether the HTTP fetch succeeds and with  *)
(* which body, whether the PDF opens and which text its pages hold.         *)

Http == <<"h", "t", "t", "p", ":", "/", "/">>
Https == <<"h", "t", "t", "p", "s", ":", "/", "/">>

is_url(content) == StartsWith(content, Http) \/ StartsWith(content, Https)

load_text(content, metadata) == [page_content |-> content, metadata |-> metadata]

load_markdown(content, metadata) == [page_content |-> content, metadata |-> metadata]

\* The phrases of the lines of a text: every line stripped and cut at double
\* spaces, every phrase stripped.
RECURSIVE phrases(_)
phrases(lines) ==
    IF lines = <<>> THEN <<>>
    ELSE LET cut == SplitOn(Strip(Head(lines)), <<" ", " ">>)
         IN  [i \in 1..Len(cut) |-> Strip(cut[i])] \o phrases(Tail(lines))

\* load_html on content without markup (get_text() is then the content): the
\* non-empty phrases joined by single spaces.
load_html(content, metadata) ==
    [page_content |-> Join(<<" ">>, NonEmpty(phrases(SplitOn(content, <<"\n">>)))),
     metadata |-> metadata]

\* The text parts of load_pdf: one per page that has text, led by its marker.
RECURSIVE text_parts(_, _)
text_parts(pages, page_num) ==
    IF page_num > Len(pages) THEN <<>>
    ELSE (IF pages[page_num] # <<>>
          THEN <<PageMarker(page_num) \o pages[page_num]>>
          ELSE <<>>)
         \o text_parts(pages, page_num + 1)

\* load_pdf: source_type is "pdf_file" for a path and "pdf_bytes" for bytes.
load_pdf(world, metadata, source_type) ==
    LET full_text == Join(<<"\n">>, text_parts(world.pages, 1))
    IN  IF ~world.pdf_ok
        THEN Raise(<<"Failed to process PDF: ", "cannot open">>)
        ELSE IF Strip(full_text) = <<>>
        THEN Raise(<<"Failed to process PDF: ",
                     "No text could be extracted from the PDF">>)
        ELSE Ok([page_content |-> full_text,
                 metadata |-> [total_pages |-> Len(world.pages),
                               source_type |-> source_type] @@ metadata])

load_pdf_from_url(url, world) ==
    IF ~world.fetch_ok
    THEN Raise(<<"Failed to download PDF from URL">>)
    ELSE load_pdf(world, [source |-> url, type |-> "pdf"], "pdf_bytes")

load_from_url(url, document_type, world) ==
    IF document_type = "pdf" THEN load_pdf_from_url(url, world)
    ELSE IF ~world.fetch_ok
    THEN Raise(<<"Failed to load document from URL">>)
    ELSE IF document_type = "html"
    THEN Ok(load_html(world.body, [source |-> url, type |-> document_type]))
    ELSE Ok(load_text(world.body, [source |-> url, type |-> document_type]))

load_document(content, document_type, world) ==
    IF is_url(content) THEN load_from_url(content, document_type, world)
    ELSE IF document_type = "html" THEN Ok(load_html(content, [type |-> "html"]))
    ELSE IF document_type = "markdown"
    THEN Ok(load_markdown(content, [type |-> "markdown"]))
    ELSE IF document_type = "text" THEN Ok(load_text(content, [type |-> "text"]))
    ELSE IF document_type = "pdf" THEN load_pdf(world, [type |-> "pdf"], "pdf_file")
    ELSE Raise(<<"Unsupported document type: ", document_type>>)

\* The outside calls load_document makes, in order.
load_calls(content, document_type, world) ==
    (IF is_url(content)
     THEN <<Call("requests.get", 1, world.fetch_ok)>> ELSE <<>>)
    \o (IF document_type = "pdf" /\ (is_url(content) => world.fetch_ok)
        THEN <<Call("pdfplumber.open", 1, world.pdf_ok)>> ELSE <<>>)

----------------------------------------------------------------------------
(* The embedder: app/services/embedding_service.py.  The provider answers   *)
(* one request with one vector per text ("ok"), with the last vector        *)
(* missing ("short"), or with an error ("fail").                            *)

batch_size == 100

ProviderBehaviours == {"ok", "short", "fail"}

Min(a, b) == IF a <= b THEN a ELSE b

\* The vector the provider computes for a text: two positive components of a
\* bounded range.
provider_vector(text) ==
    LET as == Cardinality({i \in 1..Len(text) : text[i] = "a"})
    IN  <<Min(as, 4) + 1, Min(Len(text) - as, 4) + 1>>

\* client.embeddings.create(input=texts) and the list made of response.data
provider_embed(texts, behaviour) ==
    IF behaviour = "fail" THEN Raise(<<"provider error">>)
    ELSE LET n == IF behaviour = "short" THEN Len(texts) - 1 ELSE Len(texts)
         IN  Ok([i \in 1..n |-> provider_vector(texts[i])])

\* EmbeddingService.generate_embeddings_batch
generate_embeddings_batch(texts, behaviour) ==
    LET response == provider_embed(texts, behaviour)
    IN  IF response.ok THEN response
        ELSE Raise(Wrap("Failed to generate batch embeddings: ", response.error))

\* The class of the exception the embedder raises when the provider fails:
\* raise RuntimeError(f"Failed to generate batch embeddings: {str(e)}")
embedding_failure_class == "RuntimeError"

\* EmbeddingService.generate_embedding: one text, the first vector returned;
\* an empty response.data raises IndexError inside the try.
generate_embedding(text, behaviour) ==
    LET response == provider_embed(<<text>>, behaviour)
    IN  IF ~response.ok
        THEN Raise(Wrap("Failed to generate embedding: ", response.error))
        ELSE IF response.value = <<>>
        THEN Raise(<<"Failed to generate embedding: ", "list index out of range">>)
        ELSE Ok(response.value[1])

\* range(0, len(texts), batch_size): the number of batches
batch_count(n) == (n + batch_size - 1) \div batch_size

\* The slices as they would be if each ran one text into the next batch:
\* texts[i:i + batch_size + 1]
batch_texts_overlapping(texts, k) ==
    SubSeq(texts, (k - 1) * batch_size + 1, Min(k * batch_size + 1, Len(texts)))

\* texts[i:i + batch_size] of the k-th batch (k from 1)
batch_texts(texts, k) ==
    SubSeq(texts, (k - 1) * batch_size + 1, Min(k * batch_size, Len(texts)))

\* The first batch on which the provider fails, 0 when it fails on none.
first_failure(n, provider) ==
    LET failing == {k \in 1..batch_count(n) : provider[k] = "fail"}
    IN  IF failing = {} THEN 0
        ELSE CHOOSE k \in failing : \A j \in failing : k <= j

\* all_embeddings after the batches 1..k, each extending the list
RECURSIVE all_embeddings(_, _, _)
all_embeddings(texts, provider, k) ==
    IF k = 0 THEN <<>>
    ELSE all_embeddings(texts, provider, k - 1)
         \o generate_embeddings_batch(batch_texts(texts, k), provider[k]).value

\* for chunk, embedding in zip(chunks, all_embeddings)
zip_records(chunk_list, embeddings) ==
    [i \in 1..Min(Len(chunk_list), Len(embeddings)) |->
        [embedding |-> embeddings[i],
         text |-> chunk_list[i].text,
         metadata |-> chunk_list[i].metadata,
         chunk_id |-> chunk_list[i].chunk_id]]

\* embed_chunks as it would be if a failing batch ended the loop without
\* ending the call: the records of the batches before it are returned.
embed_chunks_partial(chunk_list, provider) ==
    LET texts == [i \in 1..Len(chunk_list) |-> chunk_list[i].text]
        failed == first_failure(Len(texts), provider)
        issued == IF failed = 0 THEN batch_count(Len(texts)) ELSE failed
        done == IF failed = 0 THEN issued ELSE failed - 1
    IN  [ok |-> TRUE,
         value |-> zip_records(chunk_list, all_embeddings(texts, provider, done)),
         calls |-> [k \in 1..issued |->
                       Call("embeddings.create", Len(batch_texts(texts, k)),
                            k # failed)]]

\* embed_chunks as it would be with one more attempt on a batch that failed:
\* the failing request goes to the provider a second time.
embed_chunks_retrying(chunk_list, provider) ==
    LET texts == [i \in 1..Len(chunk_list) |-> chunk_list[i].text]
        failed == first_failure(Len(texts), provider)
        issued == IF failed = 0 THEN batch_count(Len(texts)) ELSE failed
        log == [k \in 1..issued |->
                   Call("embeddings.create", Len(batch_texts(texts, k)), k # failed)]
    IN  IF failed # 0
        THEN [ok |-> FALSE,
              error |-> generate_embeddings_batch(batch_texts(texts, failed),
                                                  provider[failed]).error,
              calls |-> Append(log, log[failed])]
        ELSE [ok |-> TRUE,
              value |-> zip_records(chunk_list,
                                    all_embeddings(texts, provider, issued)),
              calls |-> log]

\* EmbeddingService.embed_chunks: the batches go to the provider one after
\* the other, provider[k] saying how it answers the k-th; the first failure
\* ends the call.  With the result come the provider calls made.
embed_chunks(chunk_list, provider) ==
    LET texts == [i \in 1..Len(chunk_list) |-> chunk_list[i].text]
        failed == first_failure(Len(texts), provider)
        issued == IF failed = 0 THEN batch_count(Len(texts)) ELSE failed
        log == [k \in 1..issued |->
                   Call("embeddings.create", Len(batch_texts(texts, k)), k # failed)]
    IN  IF failed # 0
        THEN [ok |-> FALSE,
              error |-> generate_embeddings_batch(batch_texts(texts, failed),
                                                  provider[failed]).error,
              calls |-> log]
        ELSE [ok |-> TRUE,
              value |-> zip_records(chunk_list,
                                    all_embeddings(texts, provider, issued)),
              calls |-> log]

----------------------------------------------------------------------------
(* The vector index: app/services/vector_service.py over a Chroma           *)
(* collection, a sequence of entries in insertion order.                    *)

ids_of(entries) == {entries[i].chunk_id : i \in 1..Len(entries)}

has_duplicate_ids(entries) ==
    \E i, j \in 1..Len(entries) : i # j /\ entries[i].chunk_id = entries[j].chunk_id

\* collection.add as it would be if it kept the entries of known ids too.
collection_append(coll, entries) == coll \o entries

\* collection.add: ids repeated within the call are rejected; a record whose id
\* the collection already holds is skipped, the stored entry staying as it is.
collection_add(coll, entries) ==
    coll \o SelectSeq(entries, LAMBDA e : e.chunk_id \notin ids_of(coll))

\* VectorService.store_embeddings; store_ok says whether the storage accepts
\* the write.  Returns the count, the collection after, and the calls made.
store_embeddings(coll, embedding_results, store_ok) ==
    IF embedding_results = <<>>
    THEN [ok |-> TRUE, value |-> 0, collection |-> coll, calls |-> <<>>]
    ELSE IF ~store_ok \/ has_duplicate_ids(embedding_results)
    THEN [ok |-> FALSE,
          error |-> <<"Failed to store embeddings: ",
                      IF store_ok THEN "duplicate ids" ELSE "storage error">>,
          collection |-> coll,
          calls |-> <<Call("collection.add", Len(embedding_results), FALSE)>>]
    ELSE [ok |-> TRUE,
          value |-> Len(embedding_results),
          collection |-> collection_add(coll, embedding_results),
          calls |-> <<Call("collection.add", Len(embedding_results), TRUE)>>]

\* What the persist directory holds under the collection name when a process
\* starts: nothing, or the collection an earlier process left there.
NoCollection == [exists |-> FALSE, entries |-> <<>>]

\* _initialize_collection as it would be if it called create_collection on a
\* cleared name without trying get_collection first.
initialize_collection_anew(on_disk) ==
    [collection |-> <<>>,
     metadata |-> [hnsw_space |-> "cosine"],
     calls |-> <<Call("create_collection", 1, TRUE)>>]

\* VectorService._initialize_collection: get_collection, and when it raises
\* create_collection(metadata={"hnsw:space": "cosine"}).  chromadb keeps the
\* metadata a collection was created with.
initialize_collection(on_disk) ==
    IF on_disk.exists
    THEN [collection |-> on_disk.entries,
          metadata |-> [hnsw_space |-> "cosine"],
          calls |-> <<Call("get_collection", 1, TRUE)>>]
    ELSE [collection |-> <<>>,
          metadata |-> [hnsw_space |-> "cosine"],
          calls |-> <<Call("get_collection", 1, FALSE),
                      Call("create_collection", 1, TRUE)>>]

\* The class of the exception the index service raises when the write fails:
\* raise RuntimeError(f"Failed to store embeddings: {str(e)}")
storage_failure_class == "RuntimeError"

\* collection.count()
collection_count(coll) == Len(coll)

\* VectorService.get_collection_stats
get_collection_stats(coll, store_ok) ==
    IF store_ok
    THEN [document_count |-> collection_count(coll), collection_name |-> "documents"]
    ELSE [error |-> "storage error"]

\* Cosine distance of two vectors with positive components, in hundredths,
\* rounded up: 100 - floor(100 * cos).
cosine_distance(u, v) ==
    LET dot == u[1] * v[1] + u[2] * v[2]
        norms == (u[1] * u[1] + u[2] * u[2]) * (v[1] * v[1] + v[2] * v[2])
        below == {k \in 0..100 : k * k * norms <= 10000 * dot * dot}
    IN  100 - (Cardinality(below) - 1)

\* The squared cosine of the query and the vector v as a fraction <<num, den>>,
\* the query's own norm left out of it.
similarity(query_embedding, v) ==
    LET dot == query_embedding[1] * v[1] + query_embedding[2] * v[2]
    IN  <<dot * dot, v[1] * v[1] + v[2] * v[2]>>

\* Entry i comes before entry j in the answer: nearer to the query, or as
\* near and inserted earlier.
before(score, i, j) ==
    LET left == score[i][1] * score[j][2]
        right == score[j][1] * score[i][2]
    IN  left > right \/ (left = right /\ i < j)

\* The first of the entries lo..hi not yet taken, in the order of the answer;
\* 0 when all are taken.
RECURSIVE nearest(_, _, _, _)
nearest(score, taken, lo, hi) ==
    IF lo = hi THEN (IF lo \in taken THEN 0 ELSE lo)
    ELSE LET mid == (lo + hi) \div 2
             l == nearest(score, taken, lo, mid)
             r == nearest(score, taken, mid + 1, hi)
         IN  IF l = 0 THEN r
             ELSE IF r = 0 THEN l
             ELSE IF before(score, r, l) THEN r ELSE l

\* The indices of the k nearest entries, nearest first.
RECURSIVE nearest_k(_, _, _, _)
nearest_k(score, n, taken, k) ==
    IF k = 0 \/ Cardinality(taken) = n THEN <<>>
    ELSE LET i == nearest(score, taken, 1, n)
         IN  <<i>> \o nearest_k(score, n, taken \cup {i}, k - 1)

\* collection.query as it would be if it answered the first top_k entries in
\* insertion order, whatever their distance to the query.
collection_query_unordered(coll, query_embedding, top_k) ==
    [k \in 1..Min(top_k, Len(coll)) |->
        [text |-> coll[k].text,
         metadata |-> coll[k].metadata,
         distance |-> cosine_distance(query_embedding, coll[k].embedding)]]

\* collection.query(n_results=top_k): the top_k entries nearest to the query,
\* nearest first, entries at equal distance in insertion order.
collection_query(coll, query_embedding, top_k) ==
    LET n == Len(coll)
        score == [i \in 1..n |-> similarity(query_embedding, coll[i].embedding)]
        order == nearest_k(score, n, {}, top_k)
    IN  [k \in 1..Len(order) |->
            [text |-> coll[order[k]].text,
             metadata |-> coll[order[k]].metadata,
             distance |-> cosine_distance(query_embedding, coll[order[k]].embedding)]]

\* VectorService.search_similar
search_similar(coll, query_embedding, top_k, store_ok) ==
    IF store_ok THEN Ok(collection_query(coll, query_embedding, top_k))
    ELSE Raise(<<"Failed to search similar documents: ", "storage error">>)

----------------------------------------------------------------------------
(* The answer synthesizer: app/services/llm_service.py.  The provider       *)
(* answers the one generation request with a content (possibly none), or    *)
(* fails.                                                                   *)

NoContent == <<>>

\* LLMService.generate_answer: the context goes into one prompt whatever its
\* size; llm says what the provider does with it.
generate_answer(question, context_chunks, llm) ==
    IF ~llm.ok
    THEN Raise(<<"Failed to generate answer: ", "provider error">>)
    ELSE IF llm.content = NoContent
    THEN Ok(<<"I couldn't generate an answer.">>)
    ELSE Ok(Strip(llm.content))

----------------------------------------------------------------------------
(* The orchestrator: app/services/document_service.py.  Each operation      *)
(* gives what the call returns (resp), the collaborator calls it made, the  *)
(* chunks and embedding records it went through, and the collection and    *)
(* the count of ids handed out after it.                                    *)

NoInfo == [present |-> FALSE]

IngestResponse(status, message, chunks_created, document_info) ==
    [kind |-> "IngestResponse", status |-> status, message |-> message,
     chunks_created |-> chunks_created, document_info |-> document_info]

QueryResponse(answer, sources) ==
    [kind |-> "QueryResponse", answer |-> answer, sources |-> sources]

Outcome(r, log, chunk_list, embedding_results, coll, next_id) ==
    [resp |-> r, calls |-> log, chunks |-> chunk_list,
     records |-> embedding_results, collection |-> coll, uuids |-> next_id]

\* The except branch of the ingestion handlers.
ingest_failed(prefix, error, log, chunk_list, coll, next_id) ==
    Outcome(IngestResponse("error", prefix \o error, 0, NoInfo),
            log, chunk_list, <<>>, coll, next_id)

\* document_info of a successful ingestion: ingest_document names the source,
\* ingest_file the filename (its file_size_bytes, the size of the upload, is
\* left out: the upload is modelled by the pages read from it).
document_info(document, labels) ==
    (IF labels.filename = ""
     THEN [source |-> Get(document.metadata, "source", "direct_input")]
     ELSE [filename |-> labels.filename])
    @@ [present |-> TRUE,
        type |-> Get(document.metadata, "type", ""),
        total_pages |-> Get(document.metadata, "total_pages", NoPage),
        original_length |-> Len(document.page_content)]

\* The end of the ingestion handlers as it would be with store_embeddings
\* called outside the try: its failure leaves the handler as an exception.
ingest_stored_raising(document, labels, log, chunk_list, embedding_results, stored, coll, next_id) ==
    IF ~stored.ok
    THEN Outcome([kind |-> "Raised", error |-> stored.error],
                 log \o stored.calls, chunk_list, embedding_results, coll, next_id)
    ELSE Outcome(IngestResponse("success",
                                labels.done \o Decimal(stored.value) \o <<" chunks">>,
                                stored.value, document_info(document, labels)),
                 log \o stored.calls, chunk_list, embedding_results,
                 stored.collection, next_id)

\* The end of the ingestion handlers, stored being what store_embeddings
\* answered: its failure is caught, its count is reported.
ingest_stored(document, labels, log, chunk_list, embedding_results, stored, coll, next_id) ==
    IF ~stored.ok
    THEN Outcome(IngestResponse("error", labels.failed \o stored.error, 0, NoInfo),
                 log \o stored.calls, chunk_list, embedding_results, coll, next_id)
    ELSE Outcome(IngestResponse("success",
                                labels.done \o Decimal(stored.value) \o <<" chunks">>,
                                stored.value, document_info(document, labels)),
                 log \o stored.calls, chunk_list, embedding_results,
                 stored.collection, next_id)

\* The handlers after embed_chunks answered embedded: its failure is caught,
\* its records go to the index.
ingest_embedded(document, labels, log, chunk_list, embedded, store_ok, coll, next_id) ==
    IF ~embedded.ok
    THEN ingest_failed(labels.failed, embedded.error, log \o embedded.calls,
                       chunk_list, coll, next_id)
    ELSE ingest_stored(document, labels, log \o embedded.calls, chunk_list,
                       embedded.value,
                       store_embeddings(coll, embedded.value, store_ok),
                       coll, next_id)

\* The handlers as they would be without the test for no chunk, the empty
\* list of texts going to the provider as a batch of its own.
ingest_chunked_through(document, labels, log, chunk_list, provider, store_ok, coll, next_id) ==
    ingest_embedded(document, labels, log, chunk_list,
                    IF chunk_list = <<>>
                    THEN [ok |-> TRUE, value |-> <<>>,
                          calls |-> <<Call("embeddings.create", 0, TRUE)>>]
                    ELSE embed_chunks(chunk_list, provider),
                    store_ok, coll, next_id + Len(chunk_list))

\* The handlers after the chunker answered chunk_list: no chunk ends the
\* ingestion, else the chunks are embedded.
ingest_chunked(document, labels, log, chunk_list, provider, store_ok, coll, next_id) ==
    IF chunk_list = <<>>
    THEN Outcome(IngestResponse("error", labels.no_chunks, 0, NoInfo),
                 log, chunk_list, <<>>, coll, next_id)
    ELSE ingest_embedded(document, labels, log, chunk_list,
                         embed_chunks(chunk_list, provider), store_ok,
                         coll, next_id + Len(chunk_list))

\* What the two ingestion handlers do once the loader has answered: chunk,
\* stop on no chunk, embed, store, report.  labels holds the texts in which the
\* handlers differ.
ingest_loaded(loaded, load_log, labels, provider, store_ok, coll, next_id) ==
    IF ~loaded.ok
    THEN ingest_failed(labels.failed, loaded.error, load_log, <<>>, coll, next_id)
    ELSE ingest_chunked(loaded.value, labels,
                        Append(load_log, Call("split_documents", 1, TRUE)),
                        split_document(loaded.value, next_id,
                                       chunk_size, chunk_overlap),
                        provider, store_ok, coll, next_id)

\* DocumentService.ingest_document
ingest_document(content, document_type, world, provider, store_ok, coll, next_id) ==
    ingest_loaded(load_document(content, document_type, world),
                  load_calls(content, document_type, world),
                  [failed |-> <<"Failed to ingest document: ">>,
                   no_chunks |-> <<"No chunks were created from the document">>,
                   done |-> <<"Successfully ingested document with ">>,
                   filename |-> ""],
                  provider, store_ok, coll, next_id)

\* DocumentService.ingest_file: only PDF bytes are loaded.
ingest_file(filename, document_type, world, provider, store_ok, coll, next_id) ==
    ingest_loaded(IF document_type = "pdf"
                  THEN load_pdf(world, [filename |-> filename, type |-> document_type,
                                        source_type |-> "file_upload"], "pdf_bytes")
                  ELSE Raise(<<"type: ", document_type, " not supported">>),
                  IF document_type = "pdf"
                  THEN <<Call("pdfplumber.open", 1, world.pdf_ok)>> ELSE <<>>,
                  [failed |-> <<"Failed to ingest file '", filename, "': ">>,
                   no_chunks |-> <<"No chunks were created">>,
                   done |-> <<"Successfully ingested file '", filename, "' with ">>,
                   filename |-> filename],
                  provider, store_ok, coll, next_id)

\* The excerpt as it would be if a long text were cut without the ellipsis.
preview_unmarked(text) ==
    IF Len(text) > 200 THEN SubSeq(text, 1, 200) ELSE text

\* The excerpt of a retrieved text in a Source: at most 200 characters of it,
\* then an ellipsis when it was cut.
preview(text) ==
    IF Len(text) > 200 THEN SubSeq(text, 1, 200) \o <<".", ".", ".">> ELSE text

NoDocuments == <<"I don't have any relevant documents to answer this question.">>

query_failed(error, log, coll, next_id) ==
    Outcome(QueryResponse(<<"An error occurred while processing your question: ">>
                          \o error, <<>>),
            log, <<>>, <<>>, coll, next_id)

\* The Source entries of the answer: page and excerpt of each retrieved chunk.
sources_of(similar_chunks) ==
    [i \in 1..Len(similar_chunks) |->
        [page |-> Get(similar_chunks[i].metadata, "page", NoPage),
         text |-> preview(similar_chunks[i].text)]]

\* The end of query_documents as it would be with generate_answer called
\* outside the try: its failure leaves the handler as an exception.
query_answered_raising(similar_chunks, answer, log, coll, next_id) ==
    IF ~answer.ok
    THEN Outcome([kind |-> "Raised", error |-> answer.error],
                 Append(log, Call("chat.completions.create",
                                  Len(similar_chunks), FALSE)),
                 <<>>, <<>>, coll, next_id)
    ELSE Outcome(QueryResponse(answer.value, sources_of(similar_chunks)),
                 Append(log, Call("chat.completions.create",
                                  Len(similar_chunks), TRUE)),
                 <<>>, <<>>, coll, next_id)

\* The end of query_documents, answer being what generate_answer answered.
query_answered(similar_chunks, answer, log, coll, next_id) ==
    IF ~answer.ok
    THEN query_failed(answer.error,
                      Append(log, Call("chat.completions.create",
                                       Len(similar_chunks), FALSE)),
                      coll, next_id)
    ELSE Outcome(QueryResponse(answer.value, sources_of(similar_chunks)),
                 Append(log, Call("chat.completions.create",
                                  Len(similar_chunks), TRUE)),
                 <<>>, <<>>, coll, next_id)

\* query_documents after the search as it would be without the test for an
\* empty result: the answer is generated whatever the search found.
query_searched_generating(question, similar_chunks, log, llm, coll, next_id) ==
    IF ~similar_chunks.ok
    THEN query_failed(similar_chunks.error,
                      Append(log, Call("collection.query", 5, FALSE)),
                      coll, next_id)
    ELSE query_answered(similar_chunks.value,
                        generate_answer(question, similar_chunks.value, llm),
                        Append(log, Call("collection.query", 5, TRUE)),
                        coll, next_id)

\* query_documents after search_similar answered similar_chunks: no chunk
\* gives the fixed answer, else the answer is generated.
query_searched(question, similar_chunks, log, llm, coll, next_id) ==
    IF ~similar_chunks.ok
    THEN query_failed(similar_chunks.error,
                      Append(log, Call("collection.query", 5, FALSE)),
                      coll, next_id)
    ELSE IF similar_chunks.value = <<>>
    THEN Outcome(QueryResponse(NoDocuments, <<>>),
                 Append(log, Call("collection.query", 5, TRUE)),
                 <<>>, <<>>, coll, next_id)
    ELSE query_answered(similar_chunks.value,
                        generate_answer(question, similar_chunks.value, llm),
                        Append(log, Call("collection.query", 5, TRUE)),
                        coll, next_id)

\* query_documents after generate_embedding answered question_embedding.
query_embedded(question, question_embedding, store_ok, llm, coll, next_id) ==
    IF ~question_embedding.ok
    THEN query_failed(question_embedding.error,
                      <<Call("embeddings.create", 1, FALSE)>>, coll, next_id)
    ELSE query_searched(question,
                        search_similar(coll, question_embedding.value, 5, store_ok),
                        <<Call("embeddings.create", 1, TRUE)>>,
                        llm, coll, next_id)

\* DocumentService.query_documents: embed the question, search the five nearest
\* chunks, stop when there is none, else generate the answer and list the sources.
query_documents(question, provider, store_ok, llm, coll, next_id) ==
    query_embedded(question, generate_embedding(question, provider),
                   store_ok, llm, coll, next_id)

----------------------------------------------------------------------------
(* The inputs of the requests and the behaviours of the outside.           *)

LongText == [i \in 1..LongLen |-> "a"]
Url == Http \o <<"x">>

Contents == {<<>>, <<" ">>, <<"a", " ", "b">>, LongText, Url}
DocumentTypes == {"pdf", "text", "html", "markdown", "xml"}
SupportedTypes == {"pdf", "text", "html", "markdown"}
Filenames == {"f.pdf"}
Questions == {<<"a">>, <<"b", "?">>}

RemoteBodies == {<<>>, <<"a", "b", " ", "a">>}
PdfFiles == {<< <<>> >>, << <<"a">>, <<"b">> >>}
LlmAnswers == {[ok |-> FALSE, content |-> NoContent],
               [ok |-> TRUE, content |-> NoContent],
               [ok |-> TRUE, content |-> <<" ", "a", "b">>]}

World(fetch_ok, body, pdf_ok, pages) ==
    [fetch_ok |-> fetch_ok, body |-> body, pdf_ok |-> pdf_ok, pages |-> pages]

\* What reading a PDF can give.
PdfWorlds ==
    {World(TRUE, <<>>, FALSE, <<>>)} \cup {World(TRUE, <<>>, TRUE, p) : p \in PdfFiles}

\* What the outside can give to load_document(content, document_type): only
\* the parts the loader asks for vary.
Worlds(content, document_type) ==
    IF is_url(content)
    THEN {World(FALSE, <<>>, TRUE, <<>>)}
         \cup (IF document_type = "pdf" THEN PdfWorlds
               ELSE {World(TRUE, b, TRUE, <<>>) : b \in RemoteBodies})
    ELSE IF document_type = "pdf" THEN PdfWorlds
    ELSE {World(TRUE, <<>>, TRUE, <<>>)}

\* The behaviours of the provider over the batches of n texts.
Providers(n) == [1..batch_count(n) -> ProviderBehaviours]

\* The number of chunks the chunker makes of what the loader returns.
chunk_count(loaded) ==
    IF loaded.ok
    THEN Len(split_text(loaded.value.page_content, separators,
                        chunk_size, chunk_overlap))
    ELSE 0

NoReq == [op |-> "none"]
NoResp == [kind |-> "none"]

\* The records a run of the service with larger chunks (chunk_size 250, no
\* overlap) made of a text of two paragraphs: one chunk of 200 characters and
\* one of 201, with the ids that follow the two of the short text.
ExistingLong ==
    embed_chunks(split_document(load_text([i \in 1..200 |-> "a"] \o <<"\n", "\n">>
                                          \o [i \in 1..201 |-> "b"],
                                          [type |-> "text"]),
                                2, 250, 0),
                 [k \in 1..1 |-> "ok"]).value

\* The collection previous runs of the service left on disk after ingesting
\* one short text and then the text of two paragraphs.
Existing ==
    store_embeddings(
        ingest_document(<<"a", " ", "b">>, "text", World(TRUE, <<>>, TRUE, <<>>),
                        [k \in 1..1 |-> "ok"], TRUE, <<>>, 0).collection,
        ExistingLong, TRUE).collection

----------------------------------------------------------------------------
(* The state machine.                                                      *)

\* VectorService._initialize_collection: the collection found on disk is
\* reused, a missing one is created empty.  uuid4 repeats no id: the draws go
\* on after the largest id in use.
Init ==
    /\ collection \in {<<>>, Existing}
    /\ uuids = LET used == ids_of(collection)
               IN  IF used = {} THEN 0
                   ELSE CHOOSE m \in used : \A j \in used : j <= m
    /\ ingests = 0
    /\ req = NoReq
    /\ resp = NoResp
    /\ calls = <<>>
    /\ chunks = <<>>
    /\ records = <<>>
    /\ history = <<>>
    /\ text_splitter = SmartTextSplitter(chunk_size, chunk_overlap).value

\* The state after a handler has run to its return.
Answered(request, out) ==
    /\ req' = request
    /\ resp' = out.resp
    /\ calls' = out.calls
    /\ chunks' = out.chunks
    /\ records' = out.records
    /\ collection' = out.collection
    /\ uuids' = out.uuids
    /\ UNCHANGED <<history, text_splitter>>

IngestDocument ==
    /\ req = NoReq
    /\ ingests < MaxIngests
    /\ \E content \in Contents, document_type \in DocumentTypes :
         \E world \in Worlds(content, document_type) :
           \E provider \in Providers(chunk_count(load_document(content, document_type, world))),
              store_ok \in BOOLEAN :
             Answered([op |-> "ingest_document", content |-> content,
                       document_type |-> document_type, world |-> world,
                       provider |-> provider, store_ok |-> store_ok],
                      ingest_document(content, document_type, world, provider,
                                      store_ok, collection, uuids))
    /\ ingests' = ingests + 1

IngestFile ==
    /\ req = NoReq
    /\ ingests < MaxIngests
    /\ \E filename \in Filenames, document_type \in DocumentTypes :
         \E world \in (IF document_type = "pdf" THEN PdfWorlds
                       ELSE {World(TRUE, <<>>, TRUE, <<>>)}) :
           \E provider \in Providers(chunk_count(
                               IF document_type = "pdf"
                               THEN load_pdf(world, [type |-> "pdf"], "pdf_bytes")
                               ELSE Raise(<<>>))),
              store_ok \in BOOLEAN :
             Answered([op |-> "ingest_file", filename |-> filename,
                       document_type |-> document_type, world |-> world,
                       provider |-> provider, store_ok |-> store_ok],
                      ingest_file(filename, document_type, world, provider,
                                  store_ok, collection, uuids))
    /\ ingests' = ingests + 1

QueryDocuments ==
    /\ req = NoReq
    /\ \E question \in Questions, provider \in ProviderBehaviours,
          store_ok \in BOOLEAN, llm \in LlmAnswers :
         Answered([op |-> "query_documents", question |-> question,
                   provider |-> provider, store_ok |-> store_ok, llm |-> llm],
                  query_documents(question, provider, store_ok, llm,
                                  collection, uuids))
    /\ UNCHANGED ingests

\* DocumentService.get_stats
GetStats ==
    /\ req = NoReq
    /\ \E store_ok \in BOOLEAN :
         Answered([op |-> "get_stats", store_ok |-> store_ok],
                  Outcome([kind |-> "Stats",
                           stats |-> get_collection_stats(collection, store_ok)],
                          <<Call("collection.count", 1, store_ok)>>,
                          <<>>, <<>>, collection, uuids))
    /\ UNCHANGED ingests

\* The caller has the response; the service waits for the next request.
Return ==
    /\ req # NoReq
    /\ req' = NoReq
    /\ resp' = NoResp
    /\ calls' = <<>>
    /\ chunks' = <<>>
    /\ records' = <<>>
    /\ UNCHANGED <<collection, uuids, ingests, history, text_splitter>>

Next ==
    \/ IngestDocument
    \/ IngestFile
    \/ QueryDocuments
    \/ GetStats
    \/ Return

Spec == Init /\ [][Next]_vars

----------------------------------------------------------------------------
(* The vector index called directly: a caller hands store_embeddings the    *)
(* records it chooses and reads get_collection_stats.  history keeps, for   *)
(* each store_embeddings call made, the records given, the collection       *)
(* before it, whether it returned, and the document_count that              *)
(* get_collection_stats reports after it.                                   *)

StoreIds == {1, 2}
StoreTexts == {<<"a">>, <<"b">>}

\* An embedding record as embed_chunks builds it for a chunk of this text.
Record(chunk_id, text) ==
    [embedding |-> provider_vector(text),
     text |-> text,
     metadata |-> [type |-> "text", chunk_size |-> Len(text)],
     chunk_id |-> chunk_id]

Records == {Record(chunk_id, text) : chunk_id \in StoreIds, text \in StoreTexts}

Batches ==
    {<<>>} \cup {<<r>> : r \in Records} \cup {<<r, q>> : r, q \in Records}

\* document_count as get_collection_stats reports it on a working storage
document_count(coll) == get_collection_stats(coll, TRUE).document_count

InitStore ==
    /\ collection = initialize_collection(NoCollection).collection
    /\ uuids = 0
    /\ ingests = 0
    /\ req = NoReq
    /\ resp = NoResp
    /\ calls = <<>>
    /\ chunks = <<>>
    /\ records = <<>>
    /\ history = <<>>
    /\ text_splitter = SmartTextSplitter(chunk_size, chunk_overlap).value

\* One call of VectorService.store_embeddings.
StoreEmbeddings ==
    /\ Len(history) < MaxStores
    /\ \E embedding_results \in Batches, store_ok \in BOOLEAN :
         LET stored == store_embeddings(collection, embedding_results, store_ok)
         IN  /\ req' = [op |-> "store_embeddings", store_ok |-> store_ok]
             /\ records' = embedding_results
             /\ resp' = IF stored.ok
                        THEN [kind |-> "Stored", value |-> stored.value]
                        ELSE [kind |-> "Raised", error |-> stored.error]
             /\ calls' = stored.calls
             /\ collection' = stored.collection
             /\ history' = Append(history,
                                  [records |-> embedding_results,
                                   before |-> collection,
                                   ok |-> stored.ok,
                                   document_count |-> document_count(stored.collection)])
    /\ UNCHANGED <<uuids, ingests, chunks, text_splitter>>

\* One call of VectorService.get_collection_stats.
GetCollectionStats ==
    /\ req.op # "get_collection_stats"
    /\ \E store_ok \in BOOLEAN :
         /\ req' = [op |-> "get_collection_stats", store_ok |-> store_ok]
         /\ resp' = [kind |-> "Stats",
                     stats |-> get_collection_stats(collection, store_ok)]
         /\ calls' = <<Call("collection.count", 1, store_ok)>>
    /\ records' = <<>>
    /\ UNCHANGED <<collection, uuids, ingests, chunks, history, text_splitter>>

\* A process starts and constructs its VectorService: the persist directory
\* holds the collection the process before left there, or (a new deployment)
\* nothing, and then nothing has been stored in this index yet.
NewVectorService ==
    /\ req.op # "VectorService"
    /\ \E on_disk \in {NoCollection, [exists |-> TRUE, entries |-> collection]} :
         LET made == initialize_collection(on_disk)
         IN  /\ req' = [op |-> "VectorService", on_disk |-> on_disk]
             /\ resp' = [kind |-> "Constructed", metadata |-> made.metadata]
             /\ calls' = made.calls
             /\ collection' = made.collection
             /\ history' = IF on_disk.exists THEN history ELSE <<>>
    /\ records' = <<>>
    /\ UNCHANGED <<uuids, ingests, chunks, text_splitter>>

NextStore ==
    \/ StoreEmbeddings
    \/ GetCollectionStats
    \/ NewVectorService

SpecStore == InitStore /\ [][NextStore]_vars

----------------------------------------------------------------------------
(* The search of the index called directly, on the collections that one     *)
(* store_embeddings call on an empty index leaves: up to three entries,     *)
(* entries of equal text under different ids included.                      *)

SearchCollections ==
    LET rs == {Record(chunk_id, text) : chunk_id \in {1, 2, 3}, text \in StoreTexts}
        batches == {<<>>} \cup {<<r>> : r \in rs} \cup {<<r, q>> : r, q \in rs}
                          \cup {<<r, q, p>> : r, q, p \in rs}
    IN  {store_embeddings(<<>>, batch, TRUE).collection : batch \in batches}

InitSearch ==
    /\ collection \in SearchCollections
    /\ uuids = 0
    /\ ingests = 0
    /\ req = NoReq
    /\ resp = NoResp
    /\ calls = <<>>
    /\ chunks = <<>>
    /\ records = <<>>
    /\ history = <<>>
    /\ text_splitter = SmartTextSplitter(chunk_size, chunk_overlap).value

\* The numbers of results a caller asks for, and the query vectors it gives.
TopKs == {1, 2, 3}
QueryEmbeddings == {provider_vector(question) : question \in Questions}

\* One call of VectorService.search_similar.
SearchSimilar ==
    /\ \E query_embedding \in QueryEmbeddings, top_k \in TopKs, store_ok \in BOOLEAN :
         LET found == search_similar(collection, query_embedding, top_k, store_ok)
         IN  /\ req' = [op |-> "search_similar", top_k |-> top_k,
                        query_embedding |-> query_embedding, store_ok |-> store_ok]
             /\ resp' = IF found.ok
                        THEN [kind |-> "Found", value |-> found.value]
                        ELSE [kind |-> "Raised", error |-> found.error]
             /\ calls' = <<Call("collection.query", top_k, store_ok)>>
    /\ records' = <<>>
    /\ UNCHANGED <<collection, uuids, ingests, chunks, history, text_splitter>>

NextSearch == SearchSimilar

SpecSearch == InitSearch /\ [][NextSearch]_vars

----------------------------------------------------------------------------
(* The chunker and the answer synthesizer called directly: a caller         *)
(* constructs the chunker with the sizes it chooses, hands split_document   *)
(* the documents the loader makes of short texts and of small PDFs, and     *)
(* hands generate_answer a question with a context of its choice.           *)

ChunkSizes == {1, 2, 3, PageChunkSize, TwoPageChunkSize}
ChunkOverlaps == {0, 1, 2, 3}

\* The texts of at most MaxTextLen characters out of a letter, a space and a
\* line break.
Texts == UNION {[1..n -> {"a", " ", "\n"}] : n \in 0..MaxTextLen}

\* The PDFs of one or two pages; extract_text gives for a page nothing, words,
\* or a line that reads like a page marker.
SmallPdfs ==
    LET page_texts == {<<>>, <<"a">>, <<"a", " ", "b">>,
                       MarkerHead \o <<"9">> \o MarkerTail}
    IN  {<<p>> : p \in page_texts} \cup {<<p, q>> : p, q \in page_texts}

\* The documents the loader returns for these inputs.
Documents ==
    {load_text(text, [type |-> "text"]) : text \in Texts}
    \cup {load_pdf(World(TRUE, <<>>, TRUE, pages), [type |-> "pdf"], "pdf_file").value :
             pages \in {f \in SmallPdfs : \E k \in 1..Len(f) : f[k] # <<>>}}

\* The contexts a caller gives generate_answer: none, or one retrieved chunk.
Contexts ==
    {<<>>, <<[text |-> <<"a">>, metadata |-> [type |-> "text"], distance |-> 0]>>}

InitParts ==
    /\ collection = <<>>
    /\ uuids = 0
    /\ ingests = 0
    /\ req = NoReq
    /\ resp = NoResp
    /\ calls = <<>>
    /\ chunks = <<>>
    /\ records = <<>>
    /\ history = <<>>
    /\ text_splitter = NoSplitter

\* SmartTextSplitter(chunk_size, chunk_overlap), as DocumentService.__init__
\* calls it once with the sizes of the settings.
NewSplitter ==
    /\ text_splitter = NoSplitter
    /\ \E size \in ChunkSizes, overlap \in ChunkOverlaps :
         LET made == SmartTextSplitter(size, overlap)
         IN  /\ req' = [op |-> "SmartTextSplitter", chunk_size |-> size,
                        chunk_overlap |-> overlap]
             /\ resp' = IF made.ok THEN [kind |-> "Constructed"]
                        ELSE [kind |-> "Raised", error |-> made.error]
             /\ text_splitter' = IF made.ok THEN made.value ELSE text_splitter
    /\ calls' = <<>>
    /\ chunks' = <<>>
    /\ UNCHANGED <<collection, uuids, ingests, records, history>>

\* One call of SmartTextSplitter.split_document.  The chunks of the call before
\* are gone, and their ids with them.  The chunker keeps nothing between calls,
\* so a call that follows another one reaches no state the first cannot.
SplitDocument ==
    /\ text_splitter # NoSplitter
    /\ req.op # "split_document"
    /\ \E document \in Documents :
         /\ req' = [op |-> "split_document", document |-> document]
         /\ chunks' = split_document(document, uuids, text_splitter.chunk_size,
                                     text_splitter.chunk_overlap)
    /\ resp' = [kind |-> "Chunks"]
    /\ calls' = <<Call("split_documents", 1, TRUE)>>
    /\ UNCHANGED <<collection, uuids, ingests, records, history, text_splitter>>

\* One call of LLMService.generate_answer: the prompt is built from whatever
\* context is given and sent to the provider.
GenerateAnswer ==
    /\ req.op # "generate_answer"
    /\ \E question \in Questions, context_chunks \in Contexts, llm \in LlmAnswers :
         LET answer == generate_answer(question, context_chunks, llm)
         IN  /\ req' = [op |-> "generate_answer", question |-> question,
                        context_chunks |-> context_chunks, llm |-> llm]
             /\ resp' = IF answer.ok THEN [kind |-> "Answer", value |-> answer.value]
                        ELSE [kind |-> "Raised", error |-> answer.error]
             /\ calls' = <<Call("chat.completions.create", Len(context_chunks), llm.ok)>>
    /\ chunks' = <<>>
    /\ UNCHANGED <<collection, uuids, ingests, records, history, text_splitter>>

NextParts ==
    \/ NewSplitter
    \/ SplitDocument
    \/ GenerateAnswer

SpecParts == InitParts /\ [][NextParts]_vars

----------------------------------------------------------------------------
(* The orchestrator with its observability collaborator.  The collaborator  *)
(* is absent (observability_service is None), present without a tracing     *)
(* sink (no Langfuse keys), present with a working sink, or present with a  *)
(* sink that fails: one whose start_span raises, or one that hands out      *)
(* spans whose update raises.  trace_operation logs, opens a span when it   *)
(* has a sink, runs the body, and closes the span; it re-raises what the    *)
(* body or the sink raise.                                                  *)

Observabilities ==
    {"absent", "no sink", "working sink", "start_span raises", "span.update raises"}

SinkError == <<"sink error">>

\* The handlers when start_span raises: trace_operation re-raises it before the
\* body of the handler is entered.
span_refused(coll, next_id) ==
    Outcome([kind |-> "Raised", error |-> SinkError], <<>>, <<>>, <<>>, coll, next_id)

\* ingest_document when span.update raises: the span of the loading and
\* chunking step fails on its way out, the except branch of the handler makes
\* the error result of it, and the span of the handler fails in turn, after
\* the loader and the chunker have run.
ingest_span_unclosed(loaded, load_log, coll, next_id) ==
    IF ~loaded.ok
    THEN Outcome([kind |-> "Raised", error |-> SinkError], load_log, <<>>, <<>>,
                 coll, next_id)
    ELSE Outcome([kind |-> "Raised", error |-> SinkError],
                 Append(load_log, Call("split_documents", 1, TRUE)),
                 split_document(loaded.value, next_id, chunk_size, chunk_overlap),
                 <<>>, coll, next_id + chunk_count(loaded))

\* DocumentService.ingest_document under trace_operation("document_ingestion")
ingest_document_traced(observability, content, document_type, world, provider, store_ok, coll, next_id) ==
    IF observability = "start_span raises" THEN span_refused(coll, next_id)
    ELSE IF observability = "span.update raises"
    THEN ingest_span_unclosed(load_document(content, document_type, world),
                              load_calls(content, document_type, world),
                              coll, next_id)
    ELSE ingest_document(content, document_type, world, provider, store_ok,
                         coll, next_id)

\* DocumentService.query_documents under trace_operation("rag_query"): when
\* span.update raises, the span of generate_embedding fails after the provider
\* was called, and the span of the handler after the except branch.
query_documents_traced(observability, question, provider, store_ok, llm, coll, next_id) ==
    IF observability = "start_span raises" THEN span_refused(coll, next_id)
    ELSE IF observability = "span.update raises"
    THEN Outcome([kind |-> "Raised", error |-> SinkError],
                 <<Call("embeddings.create", 1,
                        generate_embedding(question, provider).ok)>>,
                 <<>>, <<>>, coll, next_id)
    ELSE query_documents(question, provider, store_ok, llm, coll, next_id)

TracedContents == {<<>>, <<"a", " ", "b">>, Url}

TracedIngestDocument ==
    /\ req = NoReq
    /\ ingests < MaxIngests
    /\ \E observability \in Observabilities, content \in TracedContents,
          document_type \in DocumentTypes :
         \E world \in Worlds(content, document_type) :
           \E provider \in Providers(chunk_count(load_document(content, document_type, world))),
              store_ok \in BOOLEAN :
             Answered([op |-> "ingest_document", observability |-> observability,
                       content |-> content, document_type |-> document_type,
                       world |-> world, provider |-> provider, store_ok |-> store_ok],
                      ingest_document_traced(observability, content, document_type,
                                             world, provider, store_ok,
                                             collection, uuids))
    /\ ingests' = ingests + 1

TracedQueryDocuments ==
    /\ req = NoReq
    /\ \E observability \in Observabilities, question \in Questions,
          provider \in ProviderBehaviours, store_ok \in BOOLEAN, llm \in LlmAnswers :
         Answered([op |-> "query_documents", observability |-> observability,
                   question |-> question, provider |-> provider,
                   store_ok |-> store_ok, llm |-> llm],
                  query_documents_traced(observability, question, provider,
                                         store_ok, llm, collection, uuids))
    /\ UNCHANGED ingests

NextTraced ==
    \/ TracedIngestDocument
    \/ TracedQueryDocuments
    \/ Return

SpecTraced == Init /\ [][NextTraced]_vars

----------------------------------------------------------------------------
(* DocumentService.ingest_document cut at its collaborator calls, with a   *)
(* query of another request running between them.  req holds the frame of  *)
(* the ingestion (where it stands, the embeddings gathered so far), calls   *)
(* the calls it made, resp what the query last retrieved.                   *)

\* The ingestion up to its first provider call: load, chunk, stop on no chunk.
BeginIngest ==
    /\ IF req.op = "none" THEN TRUE ELSE req.pc = "done"
    /\ ingests < MaxIngests
    /\ \E content \in {<<" ">>, <<"a", " ", "b">>, LongText} :
         LET loaded == load_document(content, "text", World(TRUE, <<>>, TRUE, <<>>))
             chunk_list == split_document(loaded.value, uuids, chunk_size,
                                          chunk_overlap)
         IN  /\ req' = [op |-> "ingest_document", content |-> content,
                        pc |-> IF chunk_list = <<>> THEN "done" ELSE "embedding",
                        before |-> collection, all_embeddings |-> <<>>]
             /\ chunks' = chunk_list
             /\ uuids' = uuids + Len(chunk_list)
    /\ calls' = <<Call("split_documents", 1, TRUE)>>
    /\ records' = <<>>
    /\ ingests' = ingests + 1
    /\ UNCHANGED <<collection, resp, history, text_splitter>>

\* One turn of the loop of embed_chunks: the next batch goes to the provider;
\* a failure ends the ingestion, the last batch gives the records.
EmbedBatch ==
    /\ req.op = "ingest_document"
    /\ req.pc = "embedding"
    /\ \E behaviour \in ProviderBehaviours :
         LET texts == [i \in 1..Len(chunks) |-> chunks[i].text]
             k == Len(calls)
             batch == batch_texts(texts, k)
             answered == generate_embeddings_batch(batch, behaviour)
             so_far == req.all_embeddings \o answered.value
         IN  /\ calls' = Append(calls, Call("embeddings.create", Len(batch),
                                           answered.ok))
             /\ req' = IF ~answered.ok THEN [req EXCEPT !.pc = "done"]
                       ELSE IF k < batch_count(Len(texts))
                       THEN [req EXCEPT !.all_embeddings = so_far]
                       ELSE [req EXCEPT !.all_embeddings = so_far,
                                        !.pc = "embedded"]
             /\ records' = IF answered.ok /\ k = batch_count(Len(texts))
                           THEN zip_records(chunks, so_far)
                           ELSE records
    /\ UNCHANGED <<collection, uuids, ingests, chunks, resp, history, text_splitter>>

\* store_embeddings: the one write of the ingestion, with all its records.
StoreRecords ==
    /\ req.op = "ingest_document"
    /\ req.pc = "embedded"
    /\ \E store_ok \in BOOLEAN :
         LET stored == store_embeddings(collection, records, store_ok)
         IN  /\ collection' = stored.collection
             /\ calls' = calls \o stored.calls
    /\ req' = [req EXCEPT !.pc = "done"]
    /\ UNCHANGED <<uuids, ingests, chunks, records, resp, history, text_splitter>>

\* The retrieval of a query_documents request that runs meanwhile: the
\* question is embedded and the five nearest entries are fetched.
ConcurrentQuery ==
    /\ \E question \in Questions :
         LET question_embedding == generate_embedding(question, "ok").value
             found == search_similar(collection, question_embedding, 5, TRUE)
         IN  resp' = [kind |-> "Found", question |-> question,
                      value |-> found.value]
    /\ UNCHANGED <<collection, uuids, ingests, req, calls, chunks, records, history, text_splitter>>

NextConcurrent ==
    \/ BeginIngest
    \/ EmbedBatch
    \/ StoreRecords
    \/ ConcurrentQuery

SpecConcurrent == Init /\ [][NextConcurrent]_vars

----------------------------------------------------------------------------
(* What a state says of the call just answered.                            *)

IsIngest == req.op \in {"ingest_document", "ingest_file"}
IsQuery == req.op = "query_documents"

\* The calls of this name in the call log, and whether one of them failed.
Called(name) == {i \in 1..Len(calls) : calls[i].call = name}
Failed(name) == \E i \in Called(name) : ~calls[i].ok

\* The loader raised: the handler never reached the chunker.
LoadRaised == IsIngest /\ Called("split_documents") = {}
\* The chunker returned, with no chunk.
NoChunks == IsIngest /\ Called("split_documents") # {} /\ chunks = <<>>
\* embed_chunks raised, or returned.
EmbedRaised == IsIngest /\ Failed("embeddings.create")
EmbedReturned ==
    IsIngest /\ Called("embeddings.create") # {} /\ ~Failed("embeddings.create")
\* store_embeddings raised.
StoreRaised == IsIngest /\ Failed("collection.add")

\* The result the ingestion handlers return from their except branch.
ErrorResult ==
    /\ resp.kind = "IngestResponse"
    /\ resp.status = "error"
    /\ resp.message # <<>>
    /\ resp.chunks_created = 0
    /\ resp.document_info = NoInfo

----------------------------------------------------------------------------
(* The properties.                                                         *)

\* C1: whatever the content and the type, when loading, embedding or indexing
\* fails during ingest_document or ingest_file (chunking has no failure of
\* its own), the handler does not raise: it returns status "error", a
\* message, chunks_created 0 and no document_info.
C1_IngestFailureIsErrorResult ==
    (LoadRaised \/ EmbedRaised \/ StoreRaised) => ErrorResult

\* An ingestion whose chunks were embedded and whose write to the index
\* failed, answered with the error result.
C1_Witness ==
    /\ StoreRaised
    /\ chunks # <<>>
    /\ records # <<>>
    /\ ErrorResult

\* C2: when ingest_document returns status "success", chunks_created is
\* the number of chunks the chunker produced and every one of these chunks has
\* an entry in the index, whatever the embedding provider did (a provider that
\* returns fewer vectors than it was given texts included).
C2_SuccessCountsEveryChunk ==
    (req.op = "ingest_document" /\ resp.kind = "IngestResponse"
                                /\ resp.status = "success")
        => /\ resp.chunks_created = Len(chunks)
           /\ \A i \in 1..Len(chunks) : chunks[i].chunk_id \in ids_of(collection)

\* The error description each failing collaborator call of a query leaves.
QueryErrorOf(name) ==
    CASE name = "embeddings.create" -> "Failed to generate embedding: "
      [] name = "collection.query" -> "Failed to search similar documents: "
      [] name = "chat.completions.create" -> "Failed to generate answer: "

\* C3: when embedding the question, searching the index or generating the
\* answer fails, query_documents does not raise: it returns an answer whose
\* text carries the description of that error, with an empty sources list.
C3_QueryFailureIsAnswer ==
    IsQuery =>
        \A i \in 1..Len(calls) :
            ~calls[i].ok =>
                /\ resp.kind = "QueryResponse"
                /\ Len(resp.answer) >= 3
                /\ resp.answer[1] = "An error occurred while processing your question: "
                /\ resp.answer[2] = QueryErrorOf(calls[i].call)
                /\ resp.sources = <<>>

\* A query whose search found chunks and whose generation failed, answered
\* with the error text and no source.
C3_Witness ==
    /\ IsQuery
    /\ Failed("chat.completions.create")
    /\ collection # <<>>
    /\ resp.kind = "QueryResponse"
    /\ resp.answer[2] = "Failed to generate answer: "
    /\ resp.sources = <<>>

\* What search_similar answered to the query just made (a query leaves the
\* collection as it was).
SearchResults ==
    search_similar(collection,
                   generate_embedding(req.question, req.provider).value,
                   5, req.store_ok)

\* The search of the query returned, with zero results.
ZeroResults ==
    /\ IsQuery
    /\ ~Failed("embeddings.create")
    /\ SearchResults = Ok(<<>>)

\* C4: when the search of a query returns zero results, the query ends with
\* the fixed "no relevant documents" answer and an empty sources list, and
\* the generation is not called at all for that query.
C4_ZeroResultsSkipGeneration ==
    ZeroResults =>
        /\ resp.kind = "QueryResponse"
        /\ resp.answer = NoDocuments
        /\ resp.sources = <<>>
        /\ Called("chat.completions.create") = {}

\* A query on an empty index, whose search was made and found nothing.
C4_Witness ==
    /\ ZeroResults
    /\ Called("collection.query") # {}
    /\ resp.answer = NoDocuments

\* C5: when chunking a document yields zero chunks, the ingestion ends with a
\* result that is not an error: its status is not "error".
C5_NoChunksIsNotAnError ==
    NoChunks => (resp.kind = "IngestResponse" /\ resp.status # "error")

\* C6: for every content, plain or URL, and every document_type outside pdf,
\* text, html and markdown, ingest_document returns an error result and
\* calls neither the chunker nor the embedder nor the index.
C6_UnsupportedTypeIsRefused ==
    (req.op = "ingest_document" /\ req.document_type \notin SupportedTypes)
        => /\ ErrorResult
           /\ Called("split_documents") = {}
           /\ Called("embeddings.create") = {}
           /\ Called("collection.add") = {}

\* C7: when embed_chunks returns on n chunks, it returns exactly n records
\* and the i-th record has the chunk_id, the text and the metadata of the
\* i-th chunk, with the vector computed for the text of that chunk.
C7_EmbedChunksOneToOne ==
    EmbedReturned =>
        /\ Len(records) = Len(chunks)
        /\ \A i \in 1..Len(records) :
              records[i] = [embedding |-> provider_vector(chunks[i].text),
                            text |-> chunks[i].text,
                            metadata |-> chunks[i].metadata,
                            chunk_id |-> chunks[i].chunk_id]

\* C8: when the provider fails on a batch of an ingestion, embed_chunks
\* raises and returns no record, store_embeddings is not called during that
\* ingestion, and the index holds after it exactly the entries it held
\* before.
C8_EmbeddingAllOrNothing ==
    [][EmbedRaised' =>
          /\ records' = <<>>
          /\ Called("collection.add")' = {}
          /\ collection' = collection
          /\ ErrorResult']_vars

\* An ingestion into an index that held entries, whose first batch was
\* embedded and whose second batch failed.
C8_Witness ==
    /\ EmbedRaised
    /\ Cardinality(Called("embeddings.create")) = 2
    /\ calls[CHOOSE i \in Called("embeddings.create") :
                 \A j \in Called("embeddings.create") : i <= j].ok
    /\ Called("collection.add") = {}
    /\ collection = Existing

\* C9: when store_embeddings has returned and is called again with the same
\* records, the document_count get_collection_stats reports after the second
\* call is the one it reported after the first.
C9_StoreTwiceSameCount ==
    \A k \in 1..(Len(history) - 1) :
        (history[k].ok /\ history[k + 1].records = history[k].records)
            => history[k + 1].document_count = history[k].document_count

\* Two records stored, then stored again, both calls returning.
C9_Witness ==
    /\ Len(history) = 2
    /\ history[1].ok /\ history[2].ok
    /\ Len(history[1].records) = 2
    /\ history[2].records = history[1].records
    /\ history[2].document_count = 2
    /\ resp = [kind |-> "Stored", value |-> 2]

\* C10: when store_embeddings returns after being given a record whose
\* chunk_id the index already held, the entry under that chunk_id holds the
\* embedding, the text and the metadata of the new record.
C10_StoreReplacesEntry ==
    (req.op = "store_embeddings" /\ resp.kind = "Stored") =>
        \A i \in 1..Len(records) :
            records[i].chunk_id \in ids_of(history[Len(history)].before) =>
                \A j \in 1..Len(collection) :
                    collection[j].chunk_id = records[i].chunk_id
                        => collection[j] = records[i]

\* C11: whatever the collection holds and whatever top_k > 0 is asked for, a
\* search_similar call that returns gives at most top_k results, and the
\* distance of each result is no larger than the distance of the next one.
C11_SearchRankedAndBounded ==
    (req.op = "search_similar" /\ resp.kind = "Found") =>
        /\ Len(resp.value) <= req.top_k
        /\ Len(resp.value) <= Len(collection)
        /\ \A i \in 1..(Len(resp.value) - 1) :
              resp.value[i].distance <= resp.value[i + 1].distance

\* A search for two results over three entries that answers the entry stored
\* last first, because it is strictly nearer to the query than the other one
\* it answers.
C11_Witness ==
    /\ req.op = "search_similar"
    /\ resp.kind = "Found"
    /\ req.top_k = 2
    /\ Len(collection) = 3
    /\ Len(resp.value) = 2
    /\ resp.value[1].text = collection[3].text
    /\ resp.value[1].distance < resp.value[2].distance

\* C12: when the storage of the index fails during the search step of a
\* query, the search answers an empty result sequence instead of raising, and
\* the query goes on as if nothing had matched: it ends with the fixed "no
\* relevant documents" answer and no source.
C12_SearchFailureIsEmptyResult ==
    (IsQuery /\ ~Failed("embeddings.create") /\ ~req.store_ok) =>
        /\ SearchResults = Ok(<<>>)
        /\ resp = QueryResponse(NoDocuments, <<>>)

\* C13: generate_answer called with an empty context returns the fixed
\* no-context answer and does not call the provider's generation at all.
C13_EmptyContextSkipsGeneration ==
    (req.op = "generate_answer" /\ req.context_chunks = <<>>) =>
        /\ resp = [kind |-> "Answer", value |-> NoDocuments]
        /\ Called("chat.completions.create") = {}

\* A query whose answer was generated from the chunks the search found.
QuerySucceeded == IsQuery /\ Called("chat.completions.create") # {}
                     /\ ~Failed("chat.completions.create")

\* C14: in a successful query the sources are as many as the search results
\* and in their order; the text of each source is the text of the retrieved
\* chunk when that has at most 200 characters, and its first 200 characters
\* followed by "..." when it has more.
C14_SourcePreview ==
    QuerySucceeded =>
        LET found == SearchResults.value
        IN  /\ resp.kind = "QueryResponse"
            /\ Len(resp.sources) = Len(found)
            /\ \A i \in 1..Len(found) :
                  resp.sources[i].text =
                      IF Len(found[i].text) <= 200 THEN found[i].text
                      ELSE SubSeq(found[i].text, 1, 200) \o <<".", ".", ".">>

\* A successful query that lists a chunk of exactly 200 characters whole and
\* a chunk of 201 characters cut to 200 with the ellipsis.
C14_Witness ==
    /\ QuerySucceeded
    /\ resp.kind = "QueryResponse"
    /\ \E i, j \in 1..Len(resp.sources) :
          /\ Len(SearchResults.value[i].text) = 200
          /\ resp.sources[i].text = SearchResults.value[i].text
          /\ Len(SearchResults.value[j].text) = 201
          /\ Len(resp.sources[j].text) = 203

\* split_document has just returned the chunks of req.document.
Split == req.op = "split_document"
IsPdf == Get(req.document.metadata, "type", "") = "pdf"

\* C15: the chunks split_document makes of a document carry the chunk_index
\* values 0, 1, ..., N-1 in output order, and each carries total_chunks = N,
\* N being the number of chunks returned.
C15_Contiguity ==
    Split =>
        \A i \in 1..Len(chunks) :
            /\ chunks[i].metadata.chunk_index = i - 1
            /\ chunks[i].metadata.total_chunks = Len(chunks)

\* A document split into three chunks or more.
C15_Witness ==
    /\ Split
    /\ Len(chunks) >= 3
    /\ chunks[Len(chunks)].metadata.chunk_index = Len(chunks) - 1
    /\ chunks[1].metadata.total_chunks = Len(chunks)

\* C16: every chunk split_document returns, for every type of document, PDF
\* text with page markers included, carries a chunk_size equal to the length
\* of its text.
C16_ChunkSizeIsTextLength ==
    Split =>
        \A i \in 1..Len(chunks) :
            chunks[i].metadata.chunk_size = Len(chunks[i].text)

\* The places of content at which text occurs.
Occurrences(content, text) ==
    {j \in 1..(Len(content) - Len(text) + 1) :
        SubSeq(content, j, j + Len(text) - 1) = text}

\* C17: the chunker drops nothing: every character of the content of a
\* document lies within an occurrence of the text of one of its chunks.
\* (Stated for the documents without page markers, where the whole content
\* is original content.)
C17_Coverage ==
    (Split /\ ~IsPdf) =>
        \A i \in 1..Len(req.document.page_content) :
            \E k \in 1..Len(chunks) :
                \E j \in Occurrences(req.document.page_content, chunks[k].text) :
                    j <= i /\ i < j + Len(chunks[k].text)

\* C18: constructing the chunker with a chunk_overlap that is not smaller than
\* chunk_size, the two being equal included, is refused: the constructor
\* raises and no chunker exists to split a document with.
C18_OverlapNotBelowSizeRejected ==
    (req.op = "SmartTextSplitter" /\ req.chunk_overlap >= req.chunk_size) =>
        /\ resp.kind = "Raised"
        /\ text_splitter = NoSplitter

\* The chunks that carry a page, in output order.
Paged == SelectSeq(chunks, LAMBDA c : "page" \in DOMAIN c.metadata)

\* C19: the page values of the chunks of a PDF document of P pages, read in
\* chunk_index order, never decrease and never exceed total_pages = P.
C19_PagesOrderedWithinTotal ==
    (Split /\ IsPdf) =>
        \A i \in 1..Len(Paged) :
            /\ Paged[i].metadata.page <= req.document.metadata.total_pages
            /\ i < Len(Paged) => Paged[i].metadata.page <= Paged[i + 1].metadata.page

\* What the handler answering req' gives, and the calls it makes, when no
\* observability collaborator is there.
Unobserved ==
    IF req'.op = "ingest_document"
    THEN ingest_document(req'.content, req'.document_type, req'.world,
                         req'.provider, req'.store_ok, collection, uuids)
    ELSE query_documents(req'.question, req'.provider, req'.store_ok, req'.llm,
                         collection, uuids)

\* C20: the observability collaborator never gates: whether it is absent,
\* present, or present with a failing tracing sink, ingest_document and
\* query_documents return for the same inputs, the same provider behaviour
\* and the same index what they return without it, after the same sequence
\* of provider and index calls.
C20_ObservabilityNeverGates ==
    [][(req = NoReq /\ req' # NoReq) =>
          /\ resp' = Unobserved.resp
          /\ calls' = Unobserved.calls
          /\ collection' = Unobserved.collection]_vars

(***************************************************************************)
(* C21: a failure of the embedding provider reaches the orchestrator as an *)
(* error whose kind differs from the kind of an indexing failure, so that  *)
(* the kind alone tells which stage failed.                                *)
(***************************************************************************)
C21_EmbeddingFailureIsTyped ==
    EmbedRaised =>
        /\ resp.status = "error"
        /\ embedding_failure_class # storage_failure_class

\* The provider calls of the ingestion's embed_chunks, in call order.
EmbedCalls == SelectSeq(calls, LAMBDA c : c.call = "embeddings.create")
\* The texts embed_chunks was given.
ChunkTexts == [i \in 1..Len(chunks) |-> chunks[i].text]

(***************************************************************************)
(* C22: embed_chunks gives the provider consecutive slices of the chunk    *)
(* texts, each non-empty and of at most 100 texts, one call after the      *)
(* other, a call being made only when every call before it has returned;   *)
(* when all return, the calls number ceil(n/100) and their inputs, put     *)
(* together in call order, are the input texts.                            *)
(***************************************************************************)
C22_BatchesAreConsecutiveSlices ==
    IsIngest =>
        LET made == EmbedCalls
            texts == ChunkTexts
        IN  /\ \A k \in 1..Len(made) :
                  /\ made[k].n \in 1..100
                  /\ made[k].n = Len(batch_texts(texts, k))
                  /\ batch_texts(texts, k) =
                        [i \in 1..made[k].n |-> texts[(k - 1) * 100 + i]]
                  /\ k < Len(made) => made[k].ok
            /\ EmbedReturned =>
                  /\ Len(made) * 100 >= Len(texts)
                  /\ (Len(made) - 1) * 100 < Len(texts)
                  /\ Concat([k \in 1..Len(made) |-> batch_texts(texts, k)]) = texts

\* An ingestion of more than 100 chunks embedded in two calls that returned.
C22_Witness ==
    /\ EmbedReturned
    /\ Len(chunks) > 100
    /\ Len(EmbedCalls) = 2

\* The calls that go to a provider, and those that go to the index.
ProviderCalls == {"embeddings.create", "chat.completions.create"}
IndexCalls == {"collection.add", "collection.query", "collection.count"}

C24_NoChunkLongerThanChunkSize ==
    Split =>
        \A i \in 1..Len(chunks) :
            Len(chunks[i].text) <= text_splitter.chunk_size

\* A text of letters only, longer than chunk_size, cut into several chunks.
C24_Witness ==
    /\ Split
    /\ ~IsPdf
    /\ Len(req.document.page_content) > text_splitter.chunk_size
    /\ \A k \in 1..Len(req.document.page_content) :
           req.document.page_content[k] = "a"
    /\ Len(chunks) >= 2

\* Where the text reads "--- Page N ---".
Markers(text) == {i \in 1..Len(text) : MarkerAt(text, i)}
\* A PDF whose pages hold words only: every marker of its text is one the
\* loader wrote.
PlainPdf == IsPdf /\ \A k \in 1..Len(req.document.page_content) :
                        req.document.page_content[k] # "9"

(***************************************************************************)
(* C25: for a PDF document the page marker is taken out of the chunk text  *)
(* once the page number is read: no chunk text split_document returns      *)
(* holds a "--- Page N ---" marker, wherever in the chunk (start, middle   *)
(* or end) the marker stood.                                               *)
(***************************************************************************)
C25_MarkersAreStripped ==
    (Split /\ PlainPdf) =>
        \A i \in 1..Len(chunks) : Markers(chunks[i].text) = {}

(***************************************************************************)
(* C26: create-if-absent.  Constructing the vector service where the       *)
(* collection exists reuses it with all its entries, creating nothing, so  *)
(* what was stored before the process restarted is counted and found by    *)
(* the same searches after it; where the collection is absent exactly one  *)
(* empty collection with cosine distance is created.                       *)
(***************************************************************************)
C26_CreateIfAbsent ==
    req.op = "VectorService" =>
        IF req.on_disk.exists
        THEN /\ collection = req.on_disk.entries
             /\ Called("create_collection") = {}
             /\ history # <<>> =>
                   /\ document_count(collection)
                        = history[Len(history)].document_count
                   /\ history[Len(history)].ok =>
                         ids_of(history[Len(history)].records)
                            \subseteq ids_of(collection)
             /\ \A query_embedding \in QueryEmbeddings, top_k \in TopKs :
                   search_similar(collection, query_embedding, top_k, TRUE)
                     = search_similar(req.on_disk.entries, query_embedding,
                                      top_k, TRUE)
        ELSE /\ collection = <<>>
             /\ Cardinality(Called("create_collection")) = 1
             /\ resp.metadata.hnsw_space = "cosine"

\* A process that starts on a directory where the one before stored two
\* entries.
C26_Witness ==
    /\ req.op = "VectorService"
    /\ req.on_disk.exists
    /\ history # <<>>
    /\ history[Len(history)].ok
    /\ Len(collection) = 2
    /\ Called("get_collection") # {}

(***************************************************************************)
(* C27: an ingestion whose chunking yields no chunk stops there: neither   *)
(* the embedding provider nor the index is called for that request, the    *)
(* result reports chunks_created = 0, and the index is as it was before.   *)
(***************************************************************************)
C27_NoChunksShortCircuit ==
    [][NoChunks' =>
          /\ Called("embeddings.create")' = {}
          /\ Called("collection.add")' = {}
          /\ resp'.chunks_created = 0
          /\ records' = <<>>
          /\ collection' = collection]_vars

\* Content of white space only, ingested into an index that held entries:
\* the chunker was called and nothing after it.
C27_Witness ==
    /\ NoChunks
    /\ calls = <<Call("split_documents", 1, TRUE)>>
    /\ resp.chunks_created = 0
    /\ collection = Existing

\* The chunk_ids of the ingestion in flight that the index holds.
Written == ids_of(collection) \cap ids_of(chunks)

(***************************************************************************)
(* C28: the index taking each call as a whole, an ingestion writes all its *)
(* chunks with one index write made after all embedding has finished, so a *)
(* query that runs while the ingestion does has either none or all of that *)
(* ingestion's chunks among its candidates, never a part of the document.  *)
(***************************************************************************)
C28_QuerySeesNoneOrAll ==
    req.op = "ingest_document" =>
        /\ Cardinality(Called("collection.add")) <= 1
        /\ \A i \in Called("collection.add") :
              /\ i = Len(calls)
              /\ Cardinality(Called("embeddings.create")) * 100 >= Len(chunks)
        /\ Written = {} \/ Written = ids_of(chunks)
        /\ (resp.kind = "Found" /\ req.before = <<>>) =>
              Len(resp.value) \in {0, Min(5, Len(chunks))}

(***************************************************************************)
(* C29: every ingestion gives its chunks newly drawn chunk_ids, so each    *)
(* successful ingest adds chunks_created entries to the index and a failed *)
(* one adds none: after any sequence of ingests document_count is the sum  *)
(* of chunks_created over the successful ones (on top of what the index    *)
(* held), and content ingested a second time is added again, the earlier   *)
(* entries staying as they were.                                           *)
(***************************************************************************)
C29_CountGrowsByChunksCreated ==
    [][(req = NoReq /\ IsIngest') =>
          /\ ids_of(chunks') \cap ids_of(collection) = {}
          /\ document_count(collection')
               = document_count(collection)
                 + (IF resp'.status = "success" THEN resp'.chunks_created ELSE 0)
          /\ SubSeq(collection', 1, Len(collection)) = collection]_vars

\* The content the index already held, ingested once more: its two chunks
\* are added under new ids beside the two stored earlier.
C29_Witness ==
    /\ IsIngest
    /\ resp.status = "success"
    /\ resp.chunks_created = 2
    /\ Len(collection) = Len(Existing) + 2
    /\ SubSeq(collection, 1, Len(Existing)) = Existing
    /\ \A i \in 1..2 :
          /\ collection[Len(Existing) + i].text = collection[i].text
          /\ collection[Len(Existing) + i].chunk_id # collection[i].chunk_id

====
